---- MODULE Spec2Model ----
(***************************************************************************)
(* Model of handlers/aws/kinesis_trigger.py: the generator                 *)
(* _handle_kinesis_record, which turns a batch of kinesis records into     *)
(* normalised events, and _handle_kinesis_continuation, which sends one    *)
(* record with its offsets to the continuing SQS queue.  The trigger that  *)
(* drives the generator against the lambda deadline, the payload storage   *)
(* and the ARN helpers live outside this file and are modelled from their  *)
(* documented contract.                                                    *)
(***************************************************************************)
EXTENDS Integers, Sequences, FiniteSets, TLC

\* ------------------------------------------------------------------ bounds
MaxRecords == 3
MaxInvocations == 3
MaxOffset == 11

\* Python's None where an Optional[int] is expected: offsets and indices are >= 0.
None == 0 - 1

\* An empty dict.
EmptyDict == <<>>

\* ------------------------------------------------------------ conversions
\* str(int) for a natural number: its decimal digits.
Digit(d) ==
  CASE d = 0 -> "0" [] d = 1 -> "1" [] d = 2 -> "2" [] d = 3 -> "3" [] d = 4 -> "4"
    [] d = 5 -> "5" [] d = 6 -> "6" [] d = 7 -> "7" [] d = 8 -> "8" [] d = 9 -> "9"

RECURSIVE str(_)
str(n) == IF n < 10 THEN Digit(n) ELSE str(n \div 10) \o Digit(n % 10)

\* One ASCII byte as the character it decodes to.
Chr(b) ==
  CASE b = 10 -> "\n" [] b = 44 -> "," [] b = 97 -> "a" [] b = 98 -> "b"
    [] b = 99 -> "c" [] b = 100 -> "d"

\* bytes.decode("utf-8") on ASCII bytes: the characters, in order.
RECURSIVE decode(_)
decode(bytes) == IF bytes = <<>> THEN "" ELSE Chr(Head(bytes)) \o decode(Tail(bytes))

\* ------------------------------------------------------- payloads, decoder
\* Record payloads (bytes): empty, two lines "a\nb\n", one line "c,d" that the
\* expansion splits into two sub-events sharing its byte range, and "a\nd," whose
\* second line the decoder cannot decode.
PayloadEmpty == <<>>
PayloadLines == <<97, 10, 98, 10>>
PayloadExpanded == <<99, 44, 100>>
PayloadBroken == <<97, 10, 100, 44>>
Payloads == {PayloadEmpty, PayloadLines, PayloadExpanded, PayloadBroken}

\* The units the storage decodes from a payload:
\* <<log_event, starting_offset, ending_offset, event_expanded_offset>>.
DecodedUnits(payload) ==
  CASE payload = PayloadLines -> << <<<<97>>, 0, 2, None>>, <<<<98>>, 2, 4, None>> >>
    [] payload = PayloadExpanded -> << <<<<99>>, 0, 3, 0>>, <<<<100>>, 0, 3, 1>> >>
    [] payload = PayloadBroken -> << <<<<97>>, 0, 2, None>> >>
    [] OTHER -> <<>>

\* Whether the decoder raises once it has produced the units of the payload.
DecodeFails(payload) == payload = PayloadBroken

\* StorageFactory.create(storage_type="payload", payload=...): the storage keeps
\* the payload it was created for.
StorageFactory_create(payload) == [payload |-> payload]

\* storage.get_by_lines(range_start): the units that end after range_start.
get_by_lines(storage, rs) ==
  SelectSeq(DecodedUnits(storage.payload), LAMBDA u : u[3] > rs)

\* ------------------------------------------------------------ ARN helpers
ArnA == "arn:aws:kinesis:eu-central-1:111111111111:stream/alpha"
ArnB == "arn:aws:kinesis:us-east-1:222222222222:stream/beta"
Arns == {ArnA, ArnB}

\* <<stream_type, stream_name, aws_region>> of a kinesis ARN.
get_kinesis_stream_name_type_and_region_from_arn(arn) ==
  IF arn = ArnA THEN <<"stream", "alpha", "eu-central-1">>
  ELSE <<"stream", "beta", "us-east-1">>

get_account_id_from_arn(arn) == IF arn = ArnA THEN "111111111111" ELSE "222222222222"

\* ------------------------------------------------------------ the records
ConfigYaml == "inputs: [{type: kinesis-data-stream}]"
ContinuingQueue == "continuing-queue"

\* The sequence number of the record at (1-based) position i of a batch.
SequenceNumber(i) == "4963" \o str(i)

KinesisRecord(payload, seq, arn) ==
  [kinesis |-> [data |-> payload, sequenceNumber |-> seq], eventSourceARN |-> arn]

\* ------------------------------------------------------- the normalisation
\* The shared template the events are copied from.
_default_event ==
  [timestamp |-> "",
   fields |-> [message |-> "",
               log |-> [offset |-> 0, file |-> [path |-> ""]],
               aws |-> EmptyDict,
               cloud |-> [provider |-> "aws", region |-> "", account |-> EmptyDict]],
   tags |-> <<"forwarded">>]

\* datetime.utcnow().strftime("%Y-%m-%dT%H:%M:%S.%fZ") at clock tick t.
utcnow_strftime(t) == "2022-01-01T00:00:00." \o str(t) \o "Z"

\* Mutant of es_event: the fields are written into the template itself, which
\* is what the generator yields.
es_event_in_place(template, t, unit, kinesis_record, account_id) ==
  LET arn == get_kinesis_stream_name_type_and_region_from_arn(kinesis_record.eventSourceARN)
      built == [template EXCEPT
                  !.timestamp = utcnow_strftime(t),
                  !.fields.message = decode(unit[1]),
                  !.fields.log.offset = unit[2],
                  !.fields.log.file.path = kinesis_record.eventSourceARN,
                  !.fields.aws = [kinesis |-> [type |-> arn[1], name |-> arn[2],
                                               sequence_number |-> kinesis_record.kinesis.sequenceNumber]],
                  !.fields.cloud.region = arn[3],
                  !.fields.cloud.account = [id |-> account_id]]
  IN  [es_event |-> built, template |-> built]

\* The event built for one unit of kinesis_record: a deep copy of the template
\* with the unit's message and starting offset and the record's provenance.
\* Returns the event and the template as the call leaves it.
es_event(template, t, unit, kinesis_record, account_id) ==
  LET arn == get_kinesis_stream_name_type_and_region_from_arn(kinesis_record.eventSourceARN)
      copy == template
  IN  [es_event |->
         [copy EXCEPT
            !.timestamp = utcnow_strftime(t),
            !.fields.message = decode(unit[1]),
            !.fields.log.offset = unit[2],
            !.fields.log.file.path = kinesis_record.eventSourceARN,
            !.fields.aws = [kinesis |-> [type |-> arn[1], name |-> arn[2],
                                         sequence_number |-> kinesis_record.kinesis.sequenceNumber]],
            !.fields.cloud.region = arn[3],
            !.fields.cloud.account = [id |-> account_id]],
       template |-> template]

\* Mutant of yielded: the starting offset is yielded where the ending one belongs.
yielded_starting_offset(event, unit, kinesis_record_n) == <<event, unit[2], unit[4], kinesis_record_n>>

\* Mutant of yielded: the record's position is yielded counted from one.
yielded_one_based(event, unit, kinesis_record_n) == <<event, unit[3], unit[4], kinesis_record_n + 1>>

\* What the generator yields for a unit of the record at 0-based position n:
\* <<es_event, ending_offset, event_expanded_offset, kinesis_record_n>>.
yielded(event, unit, kinesis_record_n) == <<event, unit[3], unit[4], kinesis_record_n>>

\* ---------------------------------------------------------- the generator
\* Mutant of range_start: the decoding starts after the first line.
range_start_after_first_line == 1 + 1

\* The range_start the generator passes to get_by_lines.
range_start == 0

\* Mutant of the generator: the units of a record are yielded last first.
RECURSIVE _handle_kinesis_record_lifo(_, _, _, _)
_handle_kinesis_record_lifo(Records, n, events, calls) ==
  IF events # <<>>
  THEN [stop |-> FALSE, raised |-> FALSE, n |-> n, unit |-> events[Len(events)],
        events |-> SubSeq(events, 1, Len(events) - 1), calls |-> calls]
  ELSE IF n >= 1 /\ DecodeFails(Records[n].kinesis.data)
  THEN [stop |-> TRUE, raised |-> TRUE, n |-> n, unit |-> <<>>, events |-> <<>>, calls |-> calls]
  ELSE IF n >= Len(Records)
  THEN [stop |-> TRUE, raised |-> FALSE, n |-> n, unit |-> <<>>, events |-> <<>>, calls |-> calls]
  ELSE LET storage == StorageFactory_create(Records[n + 1].kinesis.data)
       IN  _handle_kinesis_record_lifo(
             Records, n + 1, get_by_lines(storage, range_start),
             Append(calls, [kinesis_record_n |-> n, payload |-> storage.payload,
                            range_start |-> range_start]))

\* Mutant of the generator: the storages of all the records are created, and
\* their units requested, before the first unit is yielded.
RECURSIVE _handle_kinesis_record_eager(_, _, _, _)
_handle_kinesis_record_eager(Records, n, events, calls) ==
  LET all == [i \in 1..Len(Records) |->
                [kinesis_record_n |-> i - 1, payload |-> Records[i].kinesis.data,
                 range_start |-> range_start]]
  IN  IF events # <<>>
      THEN [stop |-> FALSE, raised |-> FALSE, n |-> n, unit |-> Head(events),
            events |-> Tail(events), calls |-> all]
      ELSE IF n >= 1 /\ DecodeFails(Records[n].kinesis.data)
      THEN [stop |-> TRUE, raised |-> TRUE, n |-> n, unit |-> <<>>, events |-> <<>>, calls |-> all]
      ELSE IF n >= Len(Records)
      THEN [stop |-> TRUE, raised |-> FALSE, n |-> n, unit |-> <<>>, events |-> <<>>, calls |-> all]
      ELSE LET storage == StorageFactory_create(Records[n + 1].kinesis.data)
           IN  _handle_kinesis_record_eager(
                 Records, n + 1, get_by_lines(storage, range_start), all)

\* Mutant of the generator: a record without units ends the iteration.
RECURSIVE _handle_kinesis_record_stop_at_empty(_, _, _, _)
_handle_kinesis_record_stop_at_empty(Records, n, events, calls) ==
  IF events # <<>>
  THEN [stop |-> FALSE, raised |-> FALSE, n |-> n, unit |-> Head(events),
        events |-> Tail(events), calls |-> calls]
  ELSE IF n >= 1 /\ DecodeFails(Records[n].kinesis.data)
  THEN [stop |-> TRUE, raised |-> TRUE, n |-> n, unit |-> <<>>, events |-> <<>>, calls |-> calls]
  ELSE IF n >= Len(Records) \/ (n >= 1 /\ DecodedUnits(Records[n].kinesis.data) = <<>>)
  THEN [stop |-> TRUE, raised |-> FALSE, n |-> n, unit |-> <<>>, events |-> <<>>, calls |-> calls]
  ELSE LET storage == StorageFactory_create(Records[n + 1].kinesis.data)
       IN  _handle_kinesis_record_stop_at_empty(
             Records, n + 1, get_by_lines(storage, range_start),
             Append(calls, [kinesis_record_n |-> n, payload |-> storage.payload,
                            range_start |-> range_start]))

\* One resumption of the generator _handle_kinesis_record, from its position
\* (n records entered so far, `events` the units of record n not yet yielded) to
\* its next yield or to its end: an exhausted record is left for the next one,
\* for which a storage is created and get_by_lines(range_start) is called.
\* `calls` logs those storage calls.  Nothing catches an error of the decoder:
\* it leaves the generator, which is then finished (`raised`).
RECURSIVE _handle_kinesis_record(_, _, _, _)
_handle_kinesis_record(Records, n, events, calls) ==
  IF events # <<>>
  THEN [stop |-> FALSE, raised |-> FALSE, n |-> n, unit |-> Head(events),
        events |-> Tail(events), calls |-> calls]
  ELSE IF n >= 1 /\ DecodeFails(Records[n].kinesis.data)
  THEN [stop |-> TRUE, raised |-> TRUE, n |-> n, unit |-> <<>>, events |-> <<>>, calls |-> calls]
  ELSE IF n >= Len(Records)
  THEN [stop |-> TRUE, raised |-> FALSE, n |-> n, unit |-> <<>>, events |-> <<>>, calls |-> calls]
  ELSE LET storage == StorageFactory_create(Records[n + 1].kinesis.data)
       IN  _handle_kinesis_record(
             Records, n + 1, get_by_lines(storage, range_start),
             Append(calls, [kinesis_record_n |-> n, payload |-> storage.payload,
                            range_start |-> range_start]))

\* --------------------------------------------------------- the continuation
\* Mutant of message_attributes: the offsets are tested for truth, so that an
\* offset of 0 is left out like None.
message_attributes_truthy(last_ending_offset, last_event_expanded_offset, sequence_number, event_input_id, config_yaml) ==
  LET arn == get_kinesis_stream_name_type_and_region_from_arn(event_input_id)
      base == [config |-> [StringValue |-> config_yaml, DataType |-> "String"],
               originalStreamType |-> [StringValue |-> arn[1], DataType |-> "String"],
               originalStreamName |-> [StringValue |-> arn[2], DataType |-> "String"],
               originalSequenceNumber |-> [StringValue |-> sequence_number, DataType |-> "String"],
               originalEventSourceARN |-> [StringValue |-> event_input_id, DataType |-> "String"]]
      withEnd ==
        IF last_ending_offset # None /\ last_ending_offset # 0
        THEN ("originalLastEndingOffset" :>
                [StringValue |-> str(last_ending_offset), DataType |-> "Number"]) @@ base
        ELSE base
  IN  IF last_event_expanded_offset # None /\ last_event_expanded_offset # 0
      THEN ("originalLastEventExpandedOffset" :>
              [StringValue |-> str(last_event_expanded_offset), DataType |-> "Number"]) @@ withEnd
      ELSE withEnd

\* Mutant of message_attributes: each offset is written under the other's name.
message_attributes_swapped(last_ending_offset, last_event_expanded_offset, sequence_number, event_input_id, config_yaml) ==
  LET arn == get_kinesis_stream_name_type_and_region_from_arn(event_input_id)
      base == [config |-> [StringValue |-> config_yaml, DataType |-> "String"],
               originalStreamType |-> [StringValue |-> arn[1], DataType |-> "String"],
               originalStreamName |-> [StringValue |-> arn[2], DataType |-> "String"],
               originalSequenceNumber |-> [StringValue |-> sequence_number, DataType |-> "String"],
               originalEventSourceARN |-> [StringValue |-> event_input_id, DataType |-> "String"]]
      withEnd ==
        IF last_ending_offset # None
        THEN ("originalLastEventExpandedOffset" :>
                [StringValue |-> str(last_ending_offset), DataType |-> "Number"]) @@ base
        ELSE base
  IN  IF last_event_expanded_offset # None
      THEN ("originalLastEndingOffset" :>
              [StringValue |-> str(last_event_expanded_offset), DataType |-> "Number"]) @@ withEnd
      ELSE withEnd

\* Mutant of message_attributes: the stream's type and name change places.
message_attributes_type_for_name(last_ending_offset, last_event_expanded_offset, sequence_number, event_input_id, config_yaml) ==
  LET arn == get_kinesis_stream_name_type_and_region_from_arn(event_input_id)
      base == [config |-> [StringValue |-> config_yaml, DataType |-> "String"],
               originalStreamType |-> [StringValue |-> arn[2], DataType |-> "String"],
               originalStreamName |-> [StringValue |-> arn[1], DataType |-> "String"],
               originalSequenceNumber |-> [StringValue |-> sequence_number, DataType |-> "String"],
               originalEventSourceARN |-> [StringValue |-> event_input_id, DataType |-> "String"]]
      withEnd ==
        IF last_ending_offset # None
        THEN ("originalLastEndingOffset" :>
                [StringValue |-> str(last_ending_offset), DataType |-> "Number"]) @@ base
        ELSE base
  IN  IF last_event_expanded_offset # None
      THEN ("originalLastEventExpandedOffset" :>
              [StringValue |-> str(last_event_expanded_offset), DataType |-> "Number"]) @@ withEnd
      ELSE withEnd

\* The attributes of the continuation message.
message_attributes(last_ending_offset, last_event_expanded_offset, sequence_number, event_input_id, config_yaml) ==
  LET arn == get_kinesis_stream_name_type_and_region_from_arn(event_input_id)
      base == [config |-> [StringValue |-> config_yaml, DataType |-> "String"],
               originalStreamType |-> [StringValue |-> arn[1], DataType |-> "String"],
               originalStreamName |-> [StringValue |-> arn[2], DataType |-> "String"],
               originalSequenceNumber |-> [StringValue |-> sequence_number, DataType |-> "String"],
               originalEventSourceARN |-> [StringValue |-> event_input_id, DataType |-> "String"]]
      withEnd ==
        IF last_ending_offset # None
        THEN ("originalLastEndingOffset" :>
                [StringValue |-> str(last_ending_offset), DataType |-> "Number"]) @@ base
        ELSE base
  IN  IF last_event_expanded_offset # None
      THEN ("originalLastEventExpandedOffset" :>
              [StringValue |-> str(last_event_expanded_offset), DataType |-> "Number"]) @@ withEnd
      ELSE withEnd

\* Mutant of _handle_kinesis_continuation: a failed send is tried once more
\* before the error is let through.
_handle_kinesis_continuation_retry(io, sqs_continuing_queue, last_ending_offset, last_event_expanded_offset, kinesis_record, event_input_id, config_yaml, send_ok) ==
  LET sequence_number == kinesis_record.kinesis.sequenceNumber
      attrs == message_attributes(last_ending_offset, last_event_expanded_offset,
                                  sequence_number, event_input_id, config_yaml)
      message_body == decode(kinesis_record.kinesis.data)
      message == [QueueUrl |-> sqs_continuing_queue, MessageBody |-> message_body,
                  MessageAttributes |-> attrs]
  IN  IF send_ok
      THEN [channel |-> Append(io.channel, message),
            attempts |-> io.attempts + 1,
            log |-> Append(io.log, [msg |-> "continuing",
                                    sqs_continuing_queue |-> sqs_continuing_queue,
                                    last_ending_offset |-> last_ending_offset,
                                    last_event_expanded_offset |-> last_event_expanded_offset,
                                    sequence_number |-> sequence_number]),
            raised |-> FALSE]
      ELSE [channel |-> io.channel, attempts |-> io.attempts + 2, log |-> io.log,
            raised |-> TRUE]

\* Mutant of _handle_kinesis_continuation: the send sits under the test of
\* last_ending_offset, so a record without offsets is not sent.
_handle_kinesis_continuation_nested(io, sqs_continuing_queue, last_ending_offset, last_event_expanded_offset, kinesis_record, event_input_id, config_yaml, send_ok) ==
  LET sequence_number == kinesis_record.kinesis.sequenceNumber
      attrs == message_attributes(last_ending_offset, last_event_expanded_offset,
                                  sequence_number, event_input_id, config_yaml)
      message_body == decode(kinesis_record.kinesis.data)
      message == [QueueUrl |-> sqs_continuing_queue, MessageBody |-> message_body,
                  MessageAttributes |-> attrs]
  IN  IF last_ending_offset = None
      THEN [channel |-> io.channel, attempts |-> io.attempts, log |-> io.log,
            raised |-> FALSE]
      ELSE IF send_ok
      THEN [channel |-> Append(io.channel, message),
            attempts |-> io.attempts + 1,
            log |-> Append(io.log, [msg |-> "continuing",
                                    sqs_continuing_queue |-> sqs_continuing_queue,
                                    last_ending_offset |-> last_ending_offset,
                                    last_event_expanded_offset |-> last_event_expanded_offset,
                                    sequence_number |-> sequence_number]),
            raised |-> FALSE]
      ELSE [channel |-> io.channel, attempts |-> io.attempts + 1, log |-> io.log,
            raised |-> TRUE]

\* Mutant of _handle_kinesis_continuation: the queue is rewritten to hold the
\* message sent rather than appended to.
_handle_kinesis_continuation_overwrite(io, sqs_continuing_queue, last_ending_offset, last_event_expanded_offset, kinesis_record, event_input_id, config_yaml, send_ok) ==
  LET sequence_number == kinesis_record.kinesis.sequenceNumber
      attrs == message_attributes(last_ending_offset, last_event_expanded_offset,
                                  sequence_number, event_input_id, config_yaml)
      message_body == decode(kinesis_record.kinesis.data)
      message == [QueueUrl |-> sqs_continuing_queue, MessageBody |-> message_body,
                  MessageAttributes |-> attrs]
  IN  IF send_ok
      THEN [channel |-> <<message>>,
            attempts |-> io.attempts + 1,
            log |-> Append(io.log, [msg |-> "continuing",
                                    sqs_continuing_queue |-> sqs_continuing_queue,
                                    last_ending_offset |-> last_ending_offset,
                                    last_event_expanded_offset |-> last_event_expanded_offset,
                                    sequence_number |-> sequence_number]),
            raised |-> FALSE]
      ELSE [channel |-> io.channel, attempts |-> io.attempts + 1, log |-> io.log,
            raised |-> TRUE]

\* One call of _handle_kinesis_continuation. `io` is the continuing queue (the
\* messages it accepted, the send_message calls made on it) and the debug log;
\* send_ok is whether the queue accepts the message or send_message raises.
\* The result is io after the call, with `raised` set when the error left it.
_handle_kinesis_continuation(io, sqs_continuing_queue, last_ending_offset, last_event_expanded_offset, kinesis_record, event_input_id, config_yaml, send_ok) ==
  LET sequence_number == kinesis_record.kinesis.sequenceNumber
      attrs == message_attributes(last_ending_offset, last_event_expanded_offset,
                                  sequence_number, event_input_id, config_yaml)
      message_body == decode(kinesis_record.kinesis.data)
      message == [QueueUrl |-> sqs_continuing_queue, MessageBody |-> message_body,
                  MessageAttributes |-> attrs]
  IN  IF send_ok
      THEN [channel |-> Append(io.channel, message),
            attempts |-> io.attempts + 1,
            log |-> Append(io.log, [msg |-> "continuing",
                                    sqs_continuing_queue |-> sqs_continuing_queue,
                                    last_ending_offset |-> last_ending_offset,
                                    last_event_expanded_offset |-> last_event_expanded_offset,
                                    sequence_number |-> sequence_number]),
            raised |-> FALSE]
      ELSE [channel |-> io.channel, attempts |-> io.attempts + 1, log |-> io.log,
            raised |-> TRUE]

\* ------------------------------------------------------------- the state
VARIABLES
  batch0,        \* the records of the batch the first invocation was given
  event,         \* the event of the running invocation: [Records |-> <<...>>]
  input_id,      \* its input id (the ARN of the stream)
  invocation,    \* 1 for the first invocation, 2.. for the resumed ones
  supplied,      \* the offsets of the message a resumed invocation was started from
  gen,           \* the generator: [n, events, calls]
  emitted,       \* the tuples of this invocation the caller passed on
  delivered,     \* the events passed on by all invocations, in order
  cursor,        \* the caller's copy of the last tuple it passed on
  phase,         \* "iterating", "continuing", "done", "failed", "decode_error"
  interrupted,   \* the 0-based index of the record the deadline stopped at
  handed,        \* the offsets given to the continuation of that record
  contIdx,       \* the 1-based index of the next record to continue
  io,            \* the continuing queue and the debug log
  consumed,      \* how many messages of the queue resumed invocations have taken
  chanStart,     \* the queue's length when this invocation started
  attemptsStart, \* the send_message calls made before this invocation started
  default_event, \* the shared template
  clock,         \* utcnow, in ticks
  threads        \* the invocations running at the same time, each with its own state

vars == <<batch0, event, input_id, invocation, supplied, gen, emitted, delivered, cursor, phase, interrupted, handed, contIdx, io, consumed, chanStart, attemptsStart, default_event, clock, threads>>

NoOffsets == [last_ending_offset |-> None, last_event_expanded_offset |-> None]
NoCursor == [kinesis_record_n |-> None, last_ending_offset |-> None, last_event_expanded_offset |-> None]
NewGen == [n |-> 0, events |-> <<>>, calls |-> <<>>]

\* The batches: up to MaxRecords records of one stream, numbered in order.
Batch(payloads, arn) ==
  [i \in 1..Len(payloads) |-> KinesisRecord(payloads[i], SequenceNumber(i), arn)]

Init ==
  \E len \in 0..MaxRecords, arn \in Arns :
    \E payloads \in [1..len -> Payloads] :
      /\ batch0 = Batch(payloads, arn)
      /\ event = [Records |-> Batch(payloads, arn)]
      /\ input_id = arn
      /\ invocation = 1
      /\ supplied = NoOffsets
      /\ gen = NewGen
      /\ emitted = <<>>
      /\ delivered = <<>>
      /\ cursor = NoCursor
      /\ phase = "iterating"
      /\ interrupted = None
      /\ handed = NoOffsets
      /\ contIdx = 0
      /\ io = [channel |-> <<>>, attempts |-> 0, log |-> <<>>, raised |-> FALSE]
      /\ consumed = 0
      /\ chanStart = 0
      /\ attemptsStart = 0
      /\ default_event = _default_event
      /\ clock = 0
      /\ threads = <<>>

\* The generator's next step from where it stands.
Fetch == _handle_kinesis_record(event.Records, gen.n, gen.events, gen.calls)

\* The event the generator builds for the unit it is about to yield.
Built(r) ==
  es_event(default_event, clock, r.unit, event.Records[r.n], get_account_id_from_arn(input_id))

\* The caller takes the next tuple of the generator while time remains and
\* passes the event on.
EmitNext ==
  /\ phase = "iterating"
  /\ LET r == Fetch IN
       /\ ~r.stop
       /\ LET b == Built(r)
              t == yielded(b.es_event, r.unit, r.n - 1)
          IN  /\ gen' = [n |-> r.n, events |-> r.events, calls |-> r.calls]
              /\ default_event' = b.template
              /\ clock' = clock + 1
              /\ emitted' = Append(emitted, t)
              /\ delivered' = Append(delivered, t[1])
              /\ cursor' = [kinesis_record_n |-> t[4], last_ending_offset |-> t[2],
                            last_event_expanded_offset |-> t[3]]
  /\ UNCHANGED <<threads, batch0, event, input_id, invocation, supplied, phase, interrupted, handed, contIdx, io, consumed, chanStart, attemptsStart>>

\* The caller takes the next tuple and finds no time left: the unit is not
\* passed on, the record it belongs to is the interrupted one, and the offsets
\* handed on are those of the last tuple of that record passed on, if any.
Interrupt ==
  /\ phase = "iterating"
  /\ LET r == Fetch IN
       /\ ~r.stop
       /\ LET b == Built(r)
          IN  /\ gen' = [n |-> r.n, events |-> r.events, calls |-> r.calls]
              /\ default_event' = b.template
              /\ clock' = clock + 1
              /\ interrupted' = r.n - 1
              /\ handed' = IF cursor.kinesis_record_n = r.n - 1
                           THEN [last_ending_offset |-> cursor.last_ending_offset,
                                 last_event_expanded_offset |-> cursor.last_event_expanded_offset]
                           ELSE NoOffsets
              /\ contIdx' = r.n
  /\ phase' = "continuing"
  /\ UNCHANGED <<threads, batch0, event, input_id, invocation, supplied, emitted, delivered, cursor, io, consumed, chanStart, attemptsStart>>

\* The generator ends: the batch is exhausted.
Exhausted ==
  /\ phase = "iterating"
  /\ LET r == Fetch IN
       /\ r.stop
       /\ ~r.raised
       /\ gen' = [n |-> r.n, events |-> r.events, calls |-> r.calls]
  /\ phase' = "done"
  /\ UNCHANGED <<threads, batch0, event, input_id, invocation, supplied, emitted, delivered, cursor, interrupted, handed, contIdx, io, consumed, chanStart, attemptsStart, default_event, clock>>

\* The decoder raises: the error leaves the generator, which yields nothing
\* more in this invocation.
DecodeError ==
  /\ phase = "iterating"
  /\ LET r == Fetch IN
       /\ r.raised
       /\ gen' = [n |-> r.n, events |-> r.events, calls |-> r.calls]
  /\ phase' = "decode_error"
  /\ UNCHANGED <<threads, batch0, event, input_id, invocation, supplied, emitted, delivered, cursor, interrupted, handed, contIdx, io, consumed, chanStart, attemptsStart, default_event, clock>>

\* The caller continues the next unprocessed record: the interrupted one with
\* the offsets handed on, each record after it with none.  A send error ends
\* the invocation as failed.
Continue ==
  /\ phase = "continuing"
  /\ contIdx <= Len(event.Records)
  /\ \E send_ok \in BOOLEAN :
       LET off == IF contIdx = interrupted + 1 THEN handed ELSE NoOffsets
           res == _handle_kinesis_continuation(
                    io, ContinuingQueue, off.last_ending_offset, off.last_event_expanded_offset,
                    event.Records[contIdx], input_id, ConfigYaml, send_ok)
       IN  /\ io' = res
           /\ phase' = IF res.raised THEN "failed"
                       ELSE IF contIdx = Len(event.Records) THEN "done" ELSE "continuing"
           /\ contIdx' = IF res.raised THEN contIdx ELSE contIdx + 1
  /\ UNCHANGED <<threads, batch0, event, input_id, invocation, supplied, gen, emitted, delivered, cursor, interrupted, handed, default_event, clock, consumed, chanStart, attemptsStart>>

\* int(s) of an attribute's StringValue.
Offsets == 0..MaxOffset
int(s) == CHOOSE n \in Offsets : str(n) = s

\* str.encode("utf-8") of a message body.
encode(body) == CHOOSE p \in Payloads : decode(p) = body

\* The offsets a continuation message carries.
MessageOffsets(message) ==
  LET a == message.MessageAttributes IN
    [last_ending_offset |->
       IF "originalLastEndingOffset" \in DOMAIN a
       THEN int(a["originalLastEndingOffset"].StringValue) ELSE None,
     last_event_expanded_offset |->
       IF "originalLastEventExpandedOffset" \in DOMAIN a
       THEN int(a["originalLastEventExpandedOffset"].StringValue) ELSE None]

\* A later invocation takes the oldest message of the continuing queue and runs
\* the generator on the record it carries.
Resume ==
  /\ phase = "done"
  /\ consumed < Len(io.channel)
  /\ invocation < MaxInvocations
  /\ LET message == io.channel[consumed + 1]
         a == message.MessageAttributes
         arn == a.originalEventSourceARN.StringValue
     IN  /\ event' = [Records |-> <<KinesisRecord(encode(message.MessageBody),
                                                  a.originalSequenceNumber.StringValue, arn)>>]
         /\ input_id' = arn
         /\ supplied' = MessageOffsets(message)
  /\ invocation' = invocation + 1
  /\ consumed' = consumed + 1
  /\ gen' = NewGen
  /\ emitted' = <<>>
  /\ cursor' = NoCursor
  /\ phase' = "iterating"
  /\ interrupted' = None
  /\ handed' = NoOffsets
  /\ contIdx' = 0
  /\ chanStart' = Len(io.channel)
  /\ attemptsStart' = io.attempts
  /\ UNCHANGED <<threads, batch0, delivered, io, default_event, clock>>

Next == EmitNext \/ Interrupt \/ Exhausted \/ DecodeError \/ Continue \/ Resume

Spec == Init /\ [][Next]_vars

\* The offsets _handle_kinesis_continuation accepts: None or a natural number.
OptionalOffsets == {None} \cup Offsets

\* A caller about to continue a record of a two-record batch with any offsets
\* the signature of _handle_kinesis_continuation allows.
InitCursor ==
  \E arn \in Arns, i \in 0..1, leo \in OptionalOffsets, leeo \in OptionalOffsets :
    /\ batch0 = Batch(<<PayloadBroken, PayloadExpanded>>, arn)
    /\ event = [Records |-> Batch(<<PayloadBroken, PayloadExpanded>>, arn)]
    /\ input_id = arn
    /\ invocation = 1
    /\ supplied = NoOffsets
    /\ gen = NewGen
    /\ emitted = <<>>
    /\ delivered = <<>>
    /\ cursor = NoCursor
    /\ phase = "continuing"
    /\ interrupted = i
    /\ handed = [last_ending_offset |-> leo, last_event_expanded_offset |-> leeo]
    /\ contIdx = i + 1
    /\ io = [channel |-> <<>>, attempts |-> 0, log |-> <<>>, raised |-> FALSE]
    /\ consumed = 0
    /\ chanStart = 0
    /\ attemptsStart = 0
    /\ default_event = _default_event
    /\ clock = 0
    /\ threads = <<>>

\* The continuation called on every cursor, and what follows it.
SpecCursor == InitCursor /\ [][Next]_vars

\* ------------------------------------------------------------ the claims
\* An event without its creation timestamp.
StripTs(e) == [e EXCEPT !.timestamp = ""]

StripAll(es) == [i \in 1..Len(es) |-> StripTs(es[i])]

\* The events of one uninterrupted pass of the generator over Records.
RECURSIVE FullPass(_, _, _, _)
FullPass(Records, arn, g, acc) ==
  LET r == _handle_kinesis_record(Records, g.n, g.events, g.calls) IN
    IF r.stop THEN acc
    ELSE FullPass(Records, arn, [n |-> r.n, events |-> r.events, calls |-> r.calls],
                  Append(acc, StripTs(es_event(_default_event, 0, r.unit, Records[r.n],
                                               get_account_id_from_arn(arn)).es_event)))

\* No invocation is running and no continuation waits on the queue.
ChainComplete == phase = "done" /\ consumed = Len(io.channel)

\* C1: once the first invocation and every resumed one have run, the events
\* passed on, in order, are those of one uninterrupted pass over the batch:
\* none twice, none skipped.
C1_ExactlyOnce ==
  ChainComplete => StripAll(delivered) = FullPass(batch0, input_id, NewGen, <<>>)

\* A resumed invocation that was started from a message with an ending offset.
ResumedWithOffset == invocation > 1 /\ supplied.last_ending_offset # None

\* A tuple lies after the supplied offsets.
AfterSupplied(t) ==
  \/ t[2] > supplied.last_ending_offset
  \/ /\ t[2] = supplied.last_ending_offset
     /\ supplied.last_event_expanded_offset # None
     /\ t[3] # None
     /\ t[3] > supplied.last_event_expanded_offset

\* C2: an invocation resumed from lastEndingOffset = k, lastSubEventIndex = j
\* asks the storage for the record from range_start k and passes on no unit that
\* ends before k, nor one that ends at k with a sub-event index <= j.
C2_NoReemission ==
  ResumedWithOffset =>
    /\ \A i \in 1..Len(gen.calls) : gen.calls[i].range_start = supplied.last_ending_offset
    /\ \A i \in 1..Len(emitted) : AfterSupplied(emitted[i])

\* What the caller sees of a tuple, and what it should see of unit u of the
\* record at 0-based position n.
Seen(t) == <<t[4], t[1].fields.message, t[1].fields.log.offset, t[2], t[3]>>
Expected(n, u) == <<n, decode(u[1]), u[2], u[3], u[4]>>

\* The units of Records from record i on, each with its record's position, in
\* batch order and, within a record, in the decoder's order.
RECURSIVE ExpectedOrder(_, _)
ExpectedOrder(Records, i) ==
  IF i > Len(Records) THEN <<>>
  ELSE LET us == DecodedUnits(Records[i].kinesis.data)
       IN  [k \in 1..Len(us) |-> Expected(i - 1, us[k])] \o ExpectedOrder(Records, i + 1)

IsPrefix(a, b) == Len(a) <= Len(b) /\ \A i \in 1..Len(a) : a[i] = b[i]

\* C3: an invocation resumed from a message without offsets decodes the record
\* from range_start 0 and, left to finish, passes on every unit of the record,
\* as a first invocation given that record does.
C3_AbsentCursorFromScratch ==
  (invocation > 1 /\ supplied = NoOffsets) =>
    /\ \A i \in 1..Len(gen.calls) : gen.calls[i].range_start = 0
    /\ IsPrefix([i \in 1..Len(emitted) |-> Seen(emitted[i])], ExpectedOrder(event.Records, 1))
    /\ (phase = "done" /\ interrupted = None) =>
         Len(emitted) = Len(ExpectedOrder(event.Records, 1))

C3_Witness ==
  /\ invocation > 1
  /\ supplied = NoOffsets
  /\ phase = "done"
  /\ interrupted = None
  /\ Len(emitted) = 2

\* C4: the tuples of a run come in batch order of their records and, within a
\* record, in the decoder's order: what has been passed on is always a prefix
\* of that total order, so the record index never decreases and every unit of
\* a record precedes every unit of the next.
C4_TotalOrder ==
  /\ IsPrefix([i \in 1..Len(emitted) |-> Seen(emitted[i])], ExpectedOrder(event.Records, 1))
  /\ \A i \in 1..Len(emitted) - 1 : emitted[i][4] <= emitted[i + 1][4]

C4_Witness ==
  /\ Len(emitted) >= 4
  /\ emitted[2][4] = 0
  /\ emitted[3][4] = 2

\* How many tuples of the record at 0-based position n this invocation passed on.
EmittedOf(n) == Cardinality({i \in 1..Len(emitted) : emitted[i][4] = n})

\* C5 (state part): once the deadline stopped the invocation at record i, no
\* storage was created and no unit passed on for a record after i.
C5_NothingAfterInterrupted ==
  interrupted # None =>
    /\ \A i \in 1..Len(gen.calls) : gen.calls[i].kinesis_record_n <= interrupted
    /\ \A i \in 1..Len(emitted) : emitted[i][4] <= interrupted

\* C5: once the deadline stopped the invocation at a unit of record i, the
\* invocation passes on no further event and never starts record i+1 or a later
\* one: the generator is not resumed and no storage is created for them.
C5_StopAtInterrupted ==
  /\ []C5_NothingAfterInterrupted
  /\ [][(interrupted # None /\ invocation' = invocation) =>
          (emitted' = emitted /\ delivered' = delivered /\ gen' = gen)]_vars

C5_Witness ==
  /\ phase = "done"
  /\ interrupted = 0
  /\ Len(event.Records) = 3
  /\ Len(emitted) = 1
  /\ Len(gen.calls) = 1

\* The messages this invocation published.
Published == SubSeq(io.channel, chanStart + 1, Len(io.channel))

\* C6: when the deadline stops the invocation at a unit of record i, the
\* offsets handed to the continuation are those of the last unit of record i
\* passed on before it, or both absent when no unit of record i was passed on
\* (never those of a unit of an earlier record), and the first continuation
\* published names record i and carries these offsets.
C6_CursorAtInterruption ==
  interrupted # None =>
    LET record == event.Records[interrupted + 1]
        us == DecodedUnits(record.kinesis.data)
        k == EmittedOf(interrupted)
    IN  /\ k < Len(us)
        /\ handed = IF k = 0 THEN NoOffsets
                    ELSE [last_ending_offset |-> us[k][3],
                          last_event_expanded_offset |-> us[k][4]]
        /\ Published # <<>> =>
             /\ Published[1].MessageAttributes.originalSequenceNumber.StringValue
                  = record.kinesis.sequenceNumber
             /\ MessageOffsets(Published[1]) = handed

C6_Witness ==
  /\ interrupted = 1
  /\ EmittedOf(0) = 2
  /\ EmittedOf(1) = 0
  /\ handed = NoOffsets
  /\ Published # <<>>

\* The invocation published a continuation for the record at position i.
PublishedFor(i) ==
  \E j \in 1..Len(Published) :
    Published[j].MessageAttributes.originalSequenceNumber.StringValue
      = event.Records[i].kinesis.sequenceNumber

\* The invocation requested the units of the record at position i and passed
\* on every one of them.
FullyConsumed(i) ==
  /\ \E c \in 1..Len(gen.calls) : gen.calls[c].kinesis_record_n = i - 1
  /\ EmittedOf(i - 1) = Len(DecodedUnits(event.Records[i].kinesis.data))

C9_OneSendAttempt ==
  /\ [][(phase = "continuing" /\ invocation' = invocation) =>
          /\ io'.attempts = io.attempts + 1
          /\ \/ /\ ~io'.raised
                /\ Len(io'.channel) = Len(io.channel) + 1
                /\ SubSeq(io'.channel, 1, Len(io.channel)) = io.channel
                /\ Len(io'.log) = Len(io.log) + 1
                /\ phase' \in {"continuing", "done"}
             \/ /\ io'.raised
                /\ io'.channel = io.channel
                /\ io'.log = io.log
                /\ phase' = "failed"]_vars
  /\ [][phase = "failed" => io' = io]_vars

C9_Witness ==
  /\ phase = "failed"
  /\ io.raised
  /\ Len(Published) = 1
  /\ io.attempts - attemptsStart = 2
  /\ Len(io.log) = Len(io.channel)

\* C10: in every published message originalLastEndingOffset is present exactly
\* when the ending offset given to the call is, originalLastEventExpandedOffset
\* exactly when the expanded offset is, each as the decimal string of its
\* value, so that an offset of 0 is present as "0".
C10_PresenceNotZero ==
  /\ Len(io.log) = Len(io.channel)
  /\ \A i \in 1..Len(io.channel) :
       LET a == io.channel[i].MessageAttributes
           l == io.log[i]
       IN  /\ ("originalLastEndingOffset" \in DOMAIN a) <=> (l.last_ending_offset # None)
           /\ ("originalLastEventExpandedOffset" \in DOMAIN a)
                <=> (l.last_event_expanded_offset # None)
           /\ MessageOffsets(io.channel[i])
                = [last_ending_offset |-> l.last_ending_offset,
                   last_event_expanded_offset |-> l.last_event_expanded_offset]
           /\ l.last_event_expanded_offset = 0 =>
                a["originalLastEventExpandedOffset"]
                  = [StringValue |-> "0", DataType |-> "Number"]
           /\ l.last_ending_offset = 0 =>
                a["originalLastEndingOffset"] = [StringValue |-> "0", DataType |-> "Number"]

C10_Witness ==
  \E i \in 1..Len(io.channel) :
    LET a == io.channel[i].MessageAttributes IN
      /\ "originalLastEventExpandedOffset" \in DOMAIN a
      /\ a["originalLastEventExpandedOffset"].StringValue = "0"
      /\ a["originalLastEndingOffset"].StringValue = "3"

\* The offsets the caller gives to the continuation of record contIdx.
ContinuedOffsets == IF contIdx = interrupted + 1 THEN handed ELSE NoOffsets

\* The cursor the caller is about to encode: the record's position in the
\* batch, its sequence number and the offsets.
EncodedCursor ==
  [recordIndex |-> contIdx - 1,
   sequenceToken |-> event.Records[contIdx].kinesis.sequenceNumber,
   lastEndingOffset |-> ContinuedOffsets.last_ending_offset,
   lastSubEventIndex |-> ContinuedOffsets.last_event_expanded_offset]

\* The cursor read back from a continuation message: the record it carries is
\* the only one of the resumed event, at position 0.
DecodeCursor(message) ==
  [recordIndex |-> 0,
   sequenceToken |-> message.MessageAttributes.originalSequenceNumber.StringValue,
   lastEndingOffset |-> MessageOffsets(message).last_ending_offset,
   lastSubEventIndex |-> MessageOffsets(message).last_event_expanded_offset]

\* A cursor without its record index.
Carried(c) ==
  [sequenceToken |-> c.sequenceToken, lastEndingOffset |-> c.lastEndingOffset,
   lastSubEventIndex |-> c.lastSubEventIndex]

\* The message a step appended to the queue.
Sent(before, after) == after.channel[Len(after.channel)]

\* The attributes a continuation message may have.
AttributeNames ==
  {"config", "originalStreamType", "originalStreamName", "originalSequenceNumber",
   "originalEventSourceARN", "originalLastEndingOffset", "originalLastEventExpandedOffset"}

\* C11 as stated: the cursor read back from the message a call published is
\* the cursor given to the call, every field equal, the record index included.
C11_RoundTripEveryField ==
  [][(phase = "continuing" /\ Len(io'.channel) > Len(io.channel)) =>
       DecodeCursor(Sent(io, io')) = EncodedCursor]_vars

\* C11 amended: the cursor read back from the message a call published has the
\* sequence number, the ending offset and the sub-event index given to the
\* call, each offset present exactly when it was given; the record index is not
\* in the message.
C11_RoundTripCarried ==
  [][(phase = "continuing" /\ Len(io'.channel) > Len(io.channel)) =>
       /\ Carried(DecodeCursor(Sent(io, io'))) = Carried(EncodedCursor)
       /\ DOMAIN Sent(io, io').MessageAttributes \subseteq AttributeNames]_vars

C11_Witness ==
  /\ Len(io.channel) = 1
  /\ interrupted = 1
  /\ MessageOffsets(io.channel[1])
       = [last_ending_offset |-> 10, last_event_expanded_offset |-> 0]
  /\ io.channel[1].MessageAttributes.originalSequenceNumber.StringValue = SequenceNumber(2)

\* Offsets with a sub-event index and no ending offset.
Malformed(off) == off.last_event_expanded_offset # None /\ off.last_ending_offset = None

\* No message on the queue has originalLastEventExpandedOffset without
\* originalLastEndingOffset.
NoOrphanExpandedOffset ==
  \A i \in 1..Len(io.channel) :
    "originalLastEventExpandedOffset" \in DOMAIN io.channel[i].MessageAttributes
      => "originalLastEndingOffset" \in DOMAIN io.channel[i].MessageAttributes

\* C12: a call given a sub-event index without an ending offset ends with an
\* error and publishes nothing, so that no message on the queue ever carries
\* originalLastEventExpandedOffset without originalLastEndingOffset.
C12_MalformedRejected ==
  /\ []NoOrphanExpandedOffset
  /\ [][(phase = "continuing" /\ invocation' = invocation /\ Malformed(ContinuedOffsets)) =>
          (io'.channel = io.channel /\ phase' = "failed")]_vars

\* The invocation ended without the deadline stopping it.
EndedUninterrupted == phase \in {"done", "decode_error"} /\ interrupted = None

\* C13: a decoder error on one record does not end the invocation: when it
\* ends without interruption, every unit of every record the decoder can decode
\* has been passed on, those after the failed record included.
C13_DecodeErrorIsolated ==
  EndedUninterrupted =>
    \A i \in 1..Len(event.Records) :
      ~DecodeFails(event.Records[i].kinesis.data) =>
        EmittedOf(i - 1) = Len(DecodedUnits(event.Records[i].kinesis.data))

\* The record at position i decodes into no unit.
ZeroUnits(i) ==
  /\ DecodedUnits(event.Records[i].kinesis.data) = <<>>
  /\ ~DecodeFails(event.Records[i].kinesis.data)

ThreeByTwo ==
  /\ Len(batch0) = 3
  /\ \A i \in 1..3 :
       Len(DecodedUnits(batch0[i].kinesis.data)) = 2 /\ ~DecodeFails(batch0[i].kinesis.data)

\* The first invocation on such a batch, stopped by the deadline after exactly
\* four units.
StoppedAfterFour == invocation = 1 /\ ThreeByTwo /\ Len(emitted) = 4 /\ interrupted # None

\* The invocation that resumes the one message such a first invocation left.
SecondAfterFour ==
  /\ invocation = 2
  /\ ThreeByTwo
  /\ Len(delivered) - Len(emitted) = 4
  /\ Len(io.channel) = 1

\* C15 as stated: the first invocation emits 4 events from records 0 and 1 and
\* continues record 1 with the offsets of the first unit of record 1; the
\* second invocation, given record 1, emits exactly its one remaining unit.
C15_ContinuesRecordOne ==
  /\ StoppedAfterFour =>
       /\ interrupted = 1
       /\ handed = [last_ending_offset |-> DecodedUnits(batch0[2].kinesis.data)[1][3],
                    last_event_expanded_offset |-> DecodedUnits(batch0[2].kinesis.data)[1][4]]
  /\ (SecondAfterFour /\ phase = "done" /\ interrupted = None) =>
       /\ event.Records = <<batch0[2]>>
       /\ Len(emitted) = 1

\* C15 amended: the four events are the two of record 0 and the two of record
\* 1, the deadline stops at the first unit of record 2, one continuation is
\* published, for record 2 and without offsets, and the second invocation,
\* given record 2, emits its two units.
C15_ContinuesRecordTwo ==
  /\ StoppedAfterFour =>
       /\ EmittedOf(0) = 2
       /\ EmittedOf(1) = 2
       /\ interrupted = 2
       /\ handed = NoOffsets
       /\ phase = "done" =>
            /\ Len(Published) = 1
            /\ Published[1].MessageAttributes.originalSequenceNumber.StringValue
                 = batch0[3].kinesis.sequenceNumber
            /\ Published[1].MessageBody = decode(batch0[3].kinesis.data)
            /\ MessageOffsets(Published[1]) = NoOffsets
  /\ SecondAfterFour =>
       /\ event.Records = <<batch0[3]>>
       /\ supplied = NoOffsets
       /\ (phase = "done" /\ interrupted = None) =>
            [i \in 1..Len(emitted) |-> Seen(emitted[i])]
              = [k \in 1..2 |-> Expected(0, DecodedUnits(batch0[3].kinesis.data)[k])]

C15_Witness ==
  /\ SecondAfterFour
  /\ phase = "done"
  /\ interrupted = None
  /\ Len(emitted) = 2
  /\ Len(delivered) = 6

\* ------------------------------------------- invocations at the same time
\* Two invocations, each given its own batch, run at the same time.  Each has
\* its own event, generator, cursor and phase; the template, the clock, the
\* continuing queue and the log are the ones they share.  The two are alike
\* but for their streams, so the longer batch is given to the first.
Threads == {1, 2}
ThreadArn(p) == IF p = 1 THEN ArnA ELSE ArnB

NewThread(records, arn) ==
  [event |-> [Records |-> records], input_id |-> arn, gen |-> NewGen, emitted |-> <<>>,
   cursor |-> NoCursor, phase |-> "iterating", interrupted |-> None, handed |-> NoOffsets,
   contIdx |-> 0]

InitConcurrent ==
  \E len1 \in 0..MaxRecords, len2 \in 0..MaxRecords :
    /\ len1 + len2 <= MaxRecords
    /\ len2 <= len1
    /\ \E p1 \in [1..len1 -> Payloads], p2 \in [1..len2 -> Payloads] :
         threads = [p \in Threads |->
                      NewThread(Batch(IF p = 1 THEN p1 ELSE p2, ThreadArn(p)), ThreadArn(p))]
    /\ io = [channel |-> <<>>, attempts |-> 0, log |-> <<>>, raised |-> FALSE]
    /\ default_event = _default_event
    /\ clock = 0
    /\ batch0 = <<>>
    /\ event = [Records |-> <<>>]
    /\ input_id = ArnA
    /\ invocation = 1
    /\ supplied = NoOffsets
    /\ gen = NewGen
    /\ emitted = <<>>
    /\ delivered = <<>>
    /\ cursor = NoCursor
    /\ phase = "done"
    /\ interrupted = None
    /\ handed = NoOffsets
    /\ contIdx = 0
    /\ consumed = 0
    /\ chanStart = 0
    /\ attemptsStart = 0

ThreadFetch(p) ==
  _handle_kinesis_record(threads[p].event.Records, threads[p].gen.n, threads[p].gen.events,
                         threads[p].gen.calls)

ThreadBuilt(p, r) ==
  es_event(default_event, clock, r.unit, threads[p].event.Records[r.n],
           get_account_id_from_arn(threads[p].input_id))

Sequential == <<batch0, event, input_id, invocation, supplied, gen, emitted, delivered, cursor, phase, interrupted, handed, contIdx, consumed, chanStart, attemptsStart>>

\* Invocation p takes the next tuple of its generator and passes the event on.
ThreadEmitNext(p) ==
  /\ threads[p].phase = "iterating"
  /\ LET r == ThreadFetch(p) IN
       /\ ~r.stop
       /\ LET b == ThreadBuilt(p, r)
              t == yielded(b.es_event, r.unit, r.n - 1)
          IN  /\ threads' = [threads EXCEPT
                    ![p].gen = [n |-> r.n, events |-> r.events, calls |-> r.calls],
                    ![p].emitted = Append(@, t),
                    ![p].cursor = [kinesis_record_n |-> t[4], last_ending_offset |-> t[2],
                                   last_event_expanded_offset |-> t[3]]]
              /\ default_event' = b.template
              /\ clock' = clock + 1
  /\ UNCHANGED <<Sequential, io>>

\* Invocation p takes the next tuple and finds no time left.
ThreadInterrupt(p) ==
  /\ threads[p].phase = "iterating"
  /\ LET r == ThreadFetch(p) IN
       /\ ~r.stop
       /\ LET b == ThreadBuilt(p, r)
              c == threads[p].cursor
          IN  /\ threads' = [threads EXCEPT
                    ![p].gen = [n |-> r.n, events |-> r.events, calls |-> r.calls],
                    ![p].interrupted = r.n - 1,
                    ![p].handed = IF c.kinesis_record_n = r.n - 1
                                  THEN [last_ending_offset |-> c.last_ending_offset,
                                        last_event_expanded_offset |-> c.last_event_expanded_offset]
                                  ELSE NoOffsets,
                    ![p].contIdx = r.n,
                    ![p].phase = "continuing"]
              /\ default_event' = b.template
              /\ clock' = clock + 1
  /\ UNCHANGED <<Sequential, io>>

\* The generator of invocation p ends.
ThreadExhausted(p) ==
  /\ threads[p].phase = "iterating"
  /\ LET r == ThreadFetch(p) IN
       /\ r.stop
       /\ ~r.raised
       /\ threads' = [threads EXCEPT
             ![p].gen = [n |-> r.n, events |-> r.events, calls |-> r.calls],
             ![p].phase = "done"]
  /\ UNCHANGED <<Sequential, io, default_event, clock>>

\* The decoder of invocation p raises.
ThreadDecodeError(p) ==
  /\ threads[p].phase = "iterating"
  /\ LET r == ThreadFetch(p) IN
       /\ r.raised
       /\ threads' = [threads EXCEPT
             ![p].gen = [n |-> r.n, events |-> r.events, calls |-> r.calls],
             ![p].phase = "decode_error"]
  /\ UNCHANGED <<Sequential, io, default_event, clock>>

\* Invocation p continues its next unprocessed record.
ThreadContinue(p) ==
  /\ threads[p].phase = "continuing"
  /\ threads[p].contIdx <= Len(threads[p].event.Records)
  /\ \E send_ok \in BOOLEAN :
       LET th == threads[p]
           off == IF th.contIdx = th.interrupted + 1 THEN th.handed ELSE NoOffsets
           res == _handle_kinesis_continuation(
                    io, ContinuingQueue, off.last_ending_offset, off.last_event_expanded_offset,
                    th.event.Records[th.contIdx], th.input_id, ConfigYaml, send_ok)
       IN  /\ io' = res
           /\ threads' = [threads EXCEPT
                 ![p].phase = IF res.raised THEN "failed"
                              ELSE IF th.contIdx = Len(th.event.Records) THEN "done"
                              ELSE "continuing",
                 ![p].contIdx = IF res.raised THEN @ ELSE @ + 1]
  /\ UNCHANGED <<Sequential, default_event, clock>>

NextConcurrent ==
  \E p \in Threads :
    \/ ThreadEmitNext(p)
    \/ ThreadInterrupt(p)
    \/ ThreadExhausted(p)
    \/ ThreadDecodeError(p)
    \/ ThreadContinue(p)

SpecConcurrent == InitConcurrent /\ [][NextConcurrent]_vars

\* One invocation run alone on Records with its own template and queue, the
\* deadline reached once k events were passed on (never, when k is None):
\* the tuples passed on, the record the deadline stopped at and the offsets
\* handed to its continuation.
RECURSIVE RunAlone(_, _, _, _, _)
RunAlone(Records, arn, g, k, acc) ==
  LET r == _handle_kinesis_record(Records, g.n, g.events, g.calls) IN
    IF r.stop
    THEN [emitted |-> acc, interrupted |-> None, handed |-> NoOffsets]
    ELSE IF Len(acc) = k
    THEN [emitted |-> acc, interrupted |-> r.n - 1,
          handed |-> IF acc # <<>> /\ acc[Len(acc)][4] = r.n - 1
                     THEN [last_ending_offset |-> acc[Len(acc)][2],
                           last_event_expanded_offset |-> acc[Len(acc)][3]]
                     ELSE NoOffsets]
    ELSE RunAlone(Records, arn, [n |-> r.n, events |-> r.events, calls |-> r.calls], k,
                  Append(acc, yielded(es_event(_default_event, 0, r.unit, Records[r.n],
                                               get_account_id_from_arn(arn)).es_event,
                                      r.unit, r.n - 1)))

\* The messages that invocation then publishes on a queue of its own.
RECURSIVE ContinueAlone(_, _, _, _, _)
ContinueAlone(Records, arn, alone, idx, ioAlone) ==
  IF alone.interrupted = None \/ idx > Len(Records) THEN ioAlone.channel
  ELSE LET off == IF idx = alone.interrupted + 1 THEN alone.handed ELSE NoOffsets
       IN  ContinueAlone(Records, arn, alone, idx + 1,
             _handle_kinesis_continuation(ioAlone, ContinuingQueue, off.last_ending_offset,
               off.last_event_expanded_offset, Records[idx], arn, ConfigYaml, TRUE))

Alone(p) ==
  RunAlone(threads[p].event.Records, threads[p].input_id, NewGen,
           IF threads[p].interrupted = None THEN None ELSE Len(threads[p].emitted), <<>>)

AloneMessages(p) ==
  ContinueAlone(threads[p].event.Records, threads[p].input_id, Alone(p),
                Alone(p).interrupted + 1,
                [channel |-> <<>>, attempts |-> 0, log |-> <<>>, raised |-> FALSE])

StripTuples(ts) == [i \in 1..Len(ts) |-> <<StripTs(ts[i][1]), ts[i][2], ts[i][3], ts[i][4]>>]

\* The messages on the shared queue that name the stream of invocation p.
PublishedBy(p) ==
  SelectSeq(io.channel,
            LAMBDA m : m.MessageAttributes.originalEventSourceARN.StringValue = threads[p].input_id)

AttributeValues(message) ==
  {message.MessageAttributes[a].StringValue : a \in DOMAIN message.MessageAttributes}

\* What every continuation carries whatever record it is for: the config as
\* given, the type and the name of the stream of the input, and the input id.
CarriesContext(message) ==
  LET a == message.MessageAttributes
      arn == get_kinesis_stream_name_type_and_region_from_arn(input_id)
  IN  /\ message.QueueUrl = ContinuingQueue
      /\ a.config = [StringValue |-> ConfigYaml, DataType |-> "String"]
      /\ a.originalStreamType.StringValue = arn[1]
      /\ a.originalStreamName.StringValue = arn[2]
      /\ a.originalEventSourceARN.StringValue = input_id

\* The message carries the sequence number of record and its payload as body.
CarriesRecord(message, record) ==
  /\ message.MessageAttributes.originalSequenceNumber.StringValue = record.kinesis.sequenceNumber
  /\ message.MessageBody = decode(record.kinesis.data)
  /\ encode(message.MessageBody) = record.kinesis.data

MutatedTag == "mutated"
Mutate(e) == [e EXCEPT !.tags = Append(@, MutatedTag)]

MutateEmitted ==
  /\ phase = "iterating"
  /\ emitted # <<>>
  /\ emitted[Len(emitted)][1].tags = _default_event.tags
  /\ LET e == emitted[Len(emitted)][1] IN
       /\ emitted' = [emitted EXCEPT ![Len(emitted)][1] = Mutate(e)]
       /\ delivered' = [delivered EXCEPT ![Len(delivered)] = Mutate(e)]
       /\ default_event' = IF default_event = e THEN Mutate(e) ELSE default_event
  /\ UNCHANGED <<threads, batch0, event, input_id, invocation, supplied, gen, cursor, phase, interrupted, handed, contIdx, io, consumed, chanStart, attemptsStart, clock>>

NextTemplate == Next \/ MutateEmitted

\* Every event passed on is there changed and unchanged, so the batches are
\* one record shorter than elsewhere.
InitTemplate == Init /\ Len(batch0) < MaxRecords

SpecTemplate == InitTemplate /\ [][NextTemplate]_vars

\* The event just passed on is the one built from the untouched template for
\* its own unit and record: nothing of an earlier event is in it.
FreshAtBirth ==
  Len(emitted') = Len(emitted) + 1 =>
    StripTs(emitted'[Len(emitted')][1])
      = FullPass(event.Records, input_id, NewGen, <<>>)[Len(emitted')]

\* C18: the template equals its initial value after every event built, also
\* after the caller changed events it was given, and every event passed on
\* holds, at the time it is passed on, only what the template and its own unit
\* and record give it.
C18_TemplateUnchanged == [](default_event = _default_event) /\ [][FreshAtBirth]_vars

\* The caller changed the first event and the generator built the next one
\* after that.
C18_Witness ==
  /\ Len(emitted) >= 2
  /\ emitted[1][1].tags = <<"forwarded", MutatedTag>>
  /\ emitted[2][1].tags = <<"forwarded">>
  /\ emitted[1][1].fields.message # emitted[2][1].fields.message

\* The units the decoder gives for Records from record i on, each with the
\* 0-based position of its record.
RECURSIVE UnitsInOrder(_, _)
UnitsInOrder(Records, i) ==
  IF i > Len(Records) THEN <<>>
  ELSE LET us == DecodedUnits(Records[i].kinesis.data)
       IN  [k \in 1..Len(us) |-> [n |-> i - 1, unit |-> us[k]]] \o UnitsInOrder(Records, i + 1)

\* The tuple t is the emission of unit u of the record at 0-based position n.
EmissionOf(t, n, u) ==
  /\ t[2] = u[3]
  /\ t[3] = u[4]
  /\ t[4] = n
  /\ t[1].fields.message = decode(u[1])
  /\ t[1].fields.log.offset = u[2]
  /\ t[1].fields.log.file.path = event.Records[n + 1].eventSourceARN
  /\ t[1].fields.aws.kinesis.sequence_number = event.Records[n + 1].kinesis.sequenceNumber

\* C19: the k-th tuple yielded is the emission of the k-th unit decoded, no
\* unit is emitted twice or skipped: the tuple has that unit's ending offset
\* and expanded offset and the 0-based position of its record, the event has
\* its starting offset and that record's sequence number and ARN; and the
\* cursor after an emission is the position of the unit just emitted.
C19_OneEmissionPerUnit ==
  /\ Len(emitted) <= Len(UnitsInOrder(event.Records, 1))
  /\ \A k \in 1..Len(emitted) :
       EmissionOf(emitted[k], UnitsInOrder(event.Records, 1)[k].n,
                  UnitsInOrder(event.Records, 1)[k].unit)
  /\ emitted # <<>> =>
       cursor = [kinesis_record_n |-> UnitsInOrder(event.Records, 1)[Len(emitted)].n,
                 last_ending_offset |-> UnitsInOrder(event.Records, 1)[Len(emitted)].unit[3],
                 last_event_expanded_offset |->
                   UnitsInOrder(event.Records, 1)[Len(emitted)].unit[4]]
  /\ emitted = <<>> => cursor = NoCursor

\* The second unit of the second record, an expanded one, was just emitted
\* after two units of the first record.
C19_Witness ==
  /\ Len(emitted) = 4
  /\ emitted[4][4] = 1
  /\ emitted[4][3] = 1
  /\ emitted[2][3] = None
  /\ emitted[2][2] # emitted[4][2]
  /\ cursor.kinesis_record_n = 1
  /\ cursor.last_event_expanded_offset = 1

\* --------------------------------------------------- an unlimited deadline
\* An invocation whose deadline never comes, on a batch every record of which
\* decodes: the caller's loop takes tuple after tuple until the generator ends.
InitUnlimited == Init /\ \A i \in 1..Len(batch0) : ~DecodeFails(batch0[i].kinesis.data)

NextUnlimited == EmitNext \/ Exhausted

SpecUnlimited == InitUnlimited /\ [][NextUnlimited]_vars /\ WF_vars(NextUnlimited)

RECURSIVE TotalUnits(_, _)
TotalUnits(Records, i) ==
  IF i > Len(Records) THEN 0
  ELSE Len(DecodedUnits(Records[i].kinesis.data)) + TotalUnits(Records, i + 1)

\* The invocation has returned, having passed on as many events as the records
\* have units, created one storage per record, in batch order, each read from
\* range_start 0, and sent nothing.
Terminated ==
  /\ phase = "done"
  /\ interrupted = None
  /\ Len(emitted) = TotalUnits(event.Records, 1)
  /\ Len(gen.calls) = Len(event.Records)
  /\ \A i \in 1..Len(gen.calls) :
       gen.calls[i] = [kinesis_record_n |-> i - 1, payload |-> event.Records[i].kinesis.data,
                       range_start |-> 0]
  /\ io.channel = <<>>
  /\ io.attempts = 0

\* C20: with an unlimited deadline the invocation eventually returns, after
\* passing on exactly the sum of the records' unit counts, each record read by
\* a storage of its own from offset 0; for an empty batch that is no event and
\* no continuation.
C20_Terminates == <>[]Terminated

C20_Witness ==
  /\ Terminated
  /\ Len(event.Records) = MaxRecords
  /\ Len(emitted) >= 4
  /\ \E i \in 1..Len(event.Records) : ZeroUnits(i)

\* The empty batch, returned from.
C20_WitnessEmpty == Terminated /\ event.Records = <<>> /\ emitted = <<>>

====
